---- MODULE Spec2Model ----
(***************************************************************************)
(* Fuzzy-search core of SanteCI: the useFuzzySearch hook                   *)
(* (src/lib/fuzzy/use-fuzzy-search.ts) and the highlight resolver          *)
(* (src/lib/fuzzy/highlight.ts).                                           *)
(*                                                                         *)
(* Strings are sequences of one-character strings.  Scores are integer     *)
(* hundredths (0.05 is 5).  Time is counted in ticks; a delay of           *)
(* debounceMs ticks is due when its countdown reaches 0, and time does not *)
(* advance past a due delay before its callback has run.                   *)
(***************************************************************************)
EXTENDS Integers, Sequences, FiniteSets, TLC

(* ------------------------------ bounds -------------------------------- *)
MaxLen == 2        \* longest raw query
MaxDebounce == 2   \* largest debounceMs, in ticks
MaxBuilds == 2     \* index constructions in one behaviour
MaxTimers == 2     \* timers that may be pending at once
MaxText == 3       \* longest text given to getHighlightSegments
MaxSpans == 2      \* spans in one matches array, all entries together
MaxEntries == 2    \* entries of one matches array
MaxHandles == 3    \* setTimeout calls of two hook instances together

(* --------------------------- program constants ------------------------ *)
DefaultThreshold == 35   \* threshold = 0.35
StrictThreshold == 30    \* THRESHOLDS.medication = 0.3
NearExactCutoff == 5     \* (r.score ?? 1) > 0.05
DefaultMinChars == 2     \* minChars = 2

Alphabet == {"a", " "}
QueryValues == UNION {[1..n -> Alphabet] : n \in 0..MaxLen}
DebounceValues == {1, MaxDebounce}
MinCharsValues == {DefaultMinChars - 1, DefaultMinChars}
KeySets == {"pharmacySearchKeys", "medicamentSearchKeys"}
Thresholds == {DefaultThreshold, StrictThreshold}
ItemLists == {<< >>, <<1, 2>>}
NoTimer == 0
NoMatch == -1
FuseScores == {NearExactCutoff, NearExactCutoff + 1}

VARIABLES
  mounted,        \* the component owning the hook is mounted
  query,          \* prop: raw query
  debounceMs,     \* option
  minChars,       \* option
  items,          \* prop: record list
  keys,           \* prop: field weights (identity)
  threshold,      \* option
  debouncedQuery, \* useState
  isSearching,    \* useState
  timerRef,       \* useRef: id of the timer scheduled last
  timers,         \* pending setTimeout tasks: [id, q, due]
  hasCleanup,     \* the last effect run returned a cleanup function
  fuse,           \* useMemo: the Fuse instance with the deps it was built from
  buildCount,     \* number of Fuse constructions so far
  fuzzyResults,   \* useMemo: scored results
  frDeps,         \* deps of the fuzzyResults memo at its last computation
  searched,       \* the last computation of fuzzyResults called fuse.search
  sinceEffect,    \* history: ticks since the effect last ran
  superseded,     \* history: a raw-query change of the burst cancelled a pending delay
  burstCommits,   \* history: timer expiries since the current burst began
  hlText,         \* getHighlightSegments: text
  hlMatches,      \* getHighlightSegments: matches
  hlKey,          \* getHighlightSegments: key
  hlSegments,     \* getHighlightSegments: returned segments
  hlDone,         \* getHighlightSegments has returned
  hlMatchesAfter, \* getHighlightSegments: the caller's matches as the call left them
  duoHooks,       \* two hook instances: the useState and useRef cells of each
  duoTimers,      \* two hook instances: the pending timers of the page
  duoNext,        \* two hook instances: the handle the next setTimeout returns
  pgSearchQuery,  \* PrixList: the debounced search text of the query key
  pgPages,        \* PrixList: data.pages, each page with the range it was asked for
  pgInFlight,     \* PrixList: the request of the running queryFn call
  pgHasNext       \* PrixList: hasNextPage

hookVars == <<mounted, query, debounceMs, minChars, items, keys, threshold,
              debouncedQuery, isSearching, timerRef, timers, hasCleanup,
              fuse, buildCount, fuzzyResults, frDeps, searched,
              sinceEffect, superseded, burstCommits>>
hlVars == <<hlText, hlMatches, hlKey, hlSegments, hlDone, hlMatchesAfter>>
duoVars == <<duoHooks, duoTimers, duoNext>>
pgVars == <<pgSearchQuery, pgPages, pgInFlight, pgHasNext>>
vars == <<hookVars, hlVars, duoVars, pgVars>>

Min(a, b) == IF a < b THEN a ELSE b
Max(a, b) == IF a > b THEN a ELSE b

(* ------------------------- String.prototype.trim ---------------------- *)
IsSpace(c) == c = " "

RECURSIVE TrimStart(_)
TrimStart(s) ==
  IF Len(s) > 0 /\ IsSpace(Head(s)) THEN TrimStart(Tail(s)) ELSE s

RECURSIVE TrimEnd(_)
TrimEnd(s) ==
  IF Len(s) > 0 /\ IsSpace(s[Len(s)]) THEN TrimEnd(SubSeq(s, 1, Len(s) - 1)) ELSE s

Trim(s) == TrimEnd(TrimStart(s))

(* ----------------------- debounce effect (l.28-41) -------------------- *)
\* l.30: the minChars guard of the effect, on the trimmed query
SubMinOrEmpty(q, mc) == Len(q) < mc
SubMinNever(q, mc) == FALSE
SubMin(q, mc) == Len(q) > 0 /\ Len(q) < mc

\* l.38-40: the cleanup, if (timerRef.current) clearTimeout(timerRef.current)
ClearTimeoutKeep(tm, ref) == tm
ClearTimeout(tm, ref) == IF ref # NoTimer THEN {t \in tm : t.id # ref} ELSE tm

\* the cleanup of the previous effect run, when that run returned one
RunCleanupNever(tm, ref, has) == tm
RunCleanup(tm, ref, has) == IF has THEN ClearTimeout(tm, ref) ELSE tm

\* setTimeout returns an id no pending timer has (ids of timers that are no
\* longer pending are reused: clearTimeout of such an id is a no-op)
FreshId(tm) ==
  CHOOSE n \in 1..(MaxTimers + 1) :
    /\ \A t \in tm : t.id # n
    /\ \A m \in 1..(n - 1) : \E t \in tm : t.id = m

\* l.33: setIsSearching(true) when a delay is scheduled
FlagOnScheduleKeep(prev) == prev
FlagOnSchedule(prev) == TRUE

\* one run of the effect for (qry, ms, mc), after the previous run's cleanup
\* l.41: the effect's dependency array
EffectDepsWithItems == {"query", "debounceMs", "minChars", "items"}
EffectDeps == {"query", "debounceMs", "minChars"}

RunEffect(qry, ms, mc) ==
  LET cleaned == RunCleanup(timers, timerRef, hasCleanup)
      q == Trim(qry)
  IN IF SubMin(q, mc)
     THEN /\ timers' = cleaned
          /\ hasCleanup' = FALSE
          /\ UNCHANGED <<isSearching, timerRef>>
     ELSE /\ Cardinality(cleaned) < MaxTimers
          /\ isSearching' = FlagOnSchedule(isSearching)
          /\ timerRef' = FreshId(cleaned)
          /\ timers' = cleaned \cup
               {[id |-> FreshId(cleaned), q |-> q, due |-> ms]}
          /\ hasCleanup' = TRUE

\* history of bursts: an effect run less than debounceMs after the previous
\* one continues the burst, any other one starts a new burst; superseded
\* records that a raw-query change of the burst cancelled a pending delay
NoteEffectRun(queryChanged) ==
  LET cancelled == queryChanged /\ RunCleanup(timers, timerRef, hasCleanup) # timers
  IN /\ sinceEffect' = 0
     /\ IF sinceEffect < debounceMs
        THEN /\ superseded' = (superseded \/ cancelled)
             /\ UNCHANGED burstCommits
        ELSE /\ superseded' = FALSE
             /\ burstCommits' = 0

(* --------------------------- Fuse index (l.43-49) --------------------- *)
\* useMemo deps [items, keys, threshold]
FuseDepsAlways(f, its, ks, thr) == TRUE
FuseDepsNoItems(f, its, ks, thr) == f.keys # ks \/ f.threshold # thr
FuseDepsChanged(f, its, ks, thr) ==
  f.items # its \/ f.keys # ks \/ f.threshold # thr

NewFuse(its, ks, thr, gen) ==
  [items |-> its, keys |-> ks, threshold |-> thr, gen |-> gen]

\* fuse.search(q): Fuse.js is not part of the repository.  Any subset of the
\* indexed records may match, each with a score at the near-exact cutoff (the
\* hook compares scores with the cutoff only, so a lower score behaves alike)
\* or above it; shouldSort orders them by ascending score, ties in index
\* order.  includeMatches attaches spans.
FuseMatches == <<[key |-> "name", indices |-> <<<<0, 1>>>>]>>

Ranked(docs, a) ==
  LET idx == [i \in 1..Len(docs) |-> i]
      at(s) == SelectSeq(idx, LAMBDA i : a[i] = s)
      order == at(NearExactCutoff) \o at(NearExactCutoff + 1)
  IN [k \in 1..Len(order) |->
        [item |-> docs[order[k]], score |-> a[order[k]], matches |-> FuseMatches]]

FuseSearch(f, q) ==
  {Ranked(f.items, a) : a \in [1..Len(f.items) -> FuseScores \cup {NoMatch}]}

(* ------------------------ fuzzyResults (l.51-66) ---------------------- *)
\* l.53 and l.56: the two bypass branches
BypassOnlyEmpty(q, mc) == Len(q) = 0
Bypass(q, mc) == Len(q) = 0 \/ Len(q) < mc

\* l.54, l.57: Array.prototype.map builds a new array; the receiver, the
\* caller's list, keeps its elements (new Fuse(items, ...) and fuse.search
\* only read the list as well)
ReceiverAfterDrain(its) == << >>
ReceiverAfterMap(its) == its

\* l.54, l.57: items.map((item) => ({ item, score: 0, isFuzzy: false }))
WrapAll(its) ==
  [i \in 1..Len(its) |->
     [item |-> its[i], score |-> 0, hasMatches |-> FALSE, matches |-> << >>,
      isFuzzy |-> FALSE]]

\* l.64: isFuzzy
IsFuzzyAtCutoff(score) == score >= NearExactCutoff
IsFuzzy(score) == score > NearExactCutoff

\* l.60-65: raw.map(...)
WrapRaw(raw) ==
  [i \in 1..Len(raw) |->
     [item |-> raw[i].item, score |-> raw[i].score, hasMatches |-> TRUE,
      matches |-> raw[i].matches, isFuzzy |-> IsFuzzy(raw[i].score)]]

\* the outcomes of one computation of fuzzyResults
ComputeFuzzy(f, dq, its, mc) ==
  LET q == Trim(dq)
  IN IF Bypass(q, mc)
     THEN {[res |-> WrapAll(its), searched |-> FALSE]}
     ELSE {[res |-> WrapRaw(raw), searched |-> TRUE] : raw \in FuseSearch(f, q)}

\* useMemo deps [fuse, debouncedQuery, items, minChars]
FuzzyDepsQueryOnly(f, dq, its, mc) == [fuse |-> 0, dq |-> dq, items |-> << >>, minChars |-> mc]
FuzzyDeps(f, dq, its, mc) == [fuse |-> f.gen, dq |-> dq, items |-> its, minChars |-> mc]

\* l.68: fuzzyResults.map((r) => r.item)
ResultsFuzzyOnly ==
  LET kept == SelectSeq(fuzzyResults, LAMBDA r : r.isFuzzy)
  IN [i \in 1..Len(kept) |-> kept[i].item]
Results == [i \in 1..Len(fuzzyResults) |-> fuzzyResults[i].item]

\* l.69-72
IsFuzzyMode ==
  /\ Len(Trim(debouncedQuery)) >= minChars
  /\ Len(fuzzyResults) > 0
  /\ \E i \in 1..Len(fuzzyResults) : fuzzyResults[i].isFuzzy

\* one render with props (its, ks, thr, mc) and state dq: the two memos, and
\* what the render leaves in the caller's list
Render(its, ks, thr, dq, mc) ==
  LET rebuild == FuseDepsChanged(fuse, its, ks, thr)
      f == IF rebuild THEN NewFuse(its, ks, thr, buildCount + 1) ELSE fuse
      deps == FuzzyDeps(f, dq, its, mc)
  IN /\ fuse' = f
     /\ buildCount' = IF rebuild THEN buildCount + 1 ELSE buildCount
     /\ IF deps # frDeps
        THEN /\ frDeps' = deps
             /\ \E out \in ComputeFuzzy(f, dq, its, mc) :
                  /\ fuzzyResults' = out.res
                  /\ searched' = out.searched
                  /\ items' = IF out.searched THEN its ELSE ReceiverAfterMap(its)
        ELSE /\ items' = its
             /\ UNCHANGED <<frDeps, fuzzyResults, searched>>


(* ------------------- getHighlightSegments (highlight.ts) --------------- *)
\* String.prototype.slice(from, to) for non-negative arguments
Slice(s, from, to) ==
  LET a == Min(Max(from, 0), Len(s))
      b == Min(Max(to, 0), Len(s))
  IN IF a >= b THEN << >> ELSE SubSeq(s, a + 1, b)

\* l.57: [...indices].sort((a, b) => a[0] - b[0]), a stable sort on the start
RECURSIVE InsertByStart(_, _)
InsertByStart(sorted, sp) ==
  IF sorted = << >> THEN <<sp>>
  ELSE IF Head(sorted)[1] <= sp[1]
       THEN <<Head(sorted)>> \o InsertByStart(Tail(sorted), sp)
       ELSE <<sp>> \o sorted

RECURSIVE SortByStart(_)
SortByStart(indices) ==
  IF indices = << >> THEN << >>
  ELSE InsertByStart(SortByStart(SubSeq(indices, 1, Len(indices) - 1)),
                     indices[Len(indices)])

\* l.61: the test that extends the last merged span
TouchesOnlyOverlap(last, start) == start <= last[2]
Touches(last, start) == start <= last[2] + 1

\* l.59-66: the merge loop over the sorted spans
RECURSIVE MergeLoop(_, _)
MergeLoop(merged, rest) ==
  IF rest = << >> THEN merged
  ELSE LET sp == Head(rest)
           n == Len(merged)
       IN IF n > 0 /\ Touches(merged[n], sp[1])
          THEN MergeLoop([merged EXCEPT ![n] = <<merged[n][1], Max(merged[n][2], sp[2])>>],
                         Tail(rest))
          ELSE MergeLoop(Append(merged, sp), Tail(rest))

\* l.54-68
mergeIndices(indices) == MergeLoop(<< >>, SortByStart(indices))

\* l.45: the highlighted slice of one merged span
HighlightedSliceExclusive(text, start, end) == Slice(text, start, end)
HighlightedSlice(text, start, end) == Slice(text, start, end + 1)

\* l.42: a plain segment precedes the span when text lies before it
GapBeforeAlways(start, lastIndex) == TRUE
GapBefore(start, lastIndex) == start > lastIndex

\* l.41-47: the loop over the merged spans; the result is the segments and lastIndex
RECURSIVE EmitLoop(_, _, _, _)
EmitLoop(text, merged, segments, lastIndex) ==
  IF merged = << >> THEN [segments |-> segments, lastIndex |-> lastIndex]
  ELSE LET start == Head(merged)[1]
           end == Head(merged)[2]
           gap == IF GapBefore(start, lastIndex)
                  THEN <<[text |-> Slice(text, lastIndex, start), highlighted |-> FALSE]>>
                  ELSE << >>
           hit == <<[text |-> HighlightedSlice(text, start, end), highlighted |-> TRUE]>>
       IN EmitLoop(text, Tail(merged), segments \o gap \o hit, end + 1)

\* l.34: matches.find((m) => m.key === key); 0 when there is none
FindFieldMatchAnyKey(list, key) == IF Len(list) > 0 THEN 1 ELSE 0
FindFieldMatch(list, key) ==
  IF \E i \in 1..Len(list) : list[i].key = key
  THEN CHOOSE i \in 1..Len(list) :
         /\ list[i].key = key
         /\ \A j \in 1..(i - 1) : list[j].key # key
  ELSE 0

\* l.26-52; matches is [defined, list], undefined being [defined |-> FALSE]
getHighlightSegments(text, matches, key) ==
  LET whole == <<[text |-> text, highlighted |-> FALSE]>>
  IN IF ~matches.defined \/ Len(matches.list) = 0 \/ Len(text) = 0
     THEN whole
     ELSE LET i == FindFieldMatch(matches.list, key)
          IN IF i = 0 \/ Len(matches.list[i].indices) = 0
             THEN whole
             ELSE LET out == EmitLoop(text, mergeIndices(matches.list[i].indices), << >>, 0)
                  IN IF out.lastIndex < Len(text)
                     THEN Append(out.segments,
                                 [text |-> Slice(text, out.lastIndex, Len(text)),
                                  highlighted |-> FALSE])
                     ELSE out.segments

\* What the call leaves in the caller's arrays.  A spans array is a sequence of
\* span objects, an object being named by its position in the caller's array.
\* l.57: the positions in the order of the sorted array
RECURSIVE InsertRefByStart(_, _, _)
InsertRefByStart(sorted, r, indices) ==
  IF sorted = << >> THEN <<r>>
  ELSE IF indices[Head(sorted)][1] <= indices[r][1]
       THEN <<Head(sorted)>> \o InsertRefByStart(Tail(sorted), r, indices)
       ELSE <<r>> \o sorted

RECURSIVE SortedRefs(_, _)
SortedRefs(indices, n) ==
  IF n = 0 THEN << >>
  ELSE InsertRefByStart(SortedRefs(indices, n - 1), n, indices)

\* l.57: sort() orders its receiver, the copy [...indices]; the caller's array
\* keeps its order
ReceiverAfterSortInPlace(order, sortedOrder) == sortedOrder
ReceiverAfterSort(order, sortedOrder) == order

\* l.64: merged.push([start, end]) pushes a new array, which is none of the
\* caller's span objects (0)
PushedObjectInput(r) == r
PushedObject(r) == 0

\* l.59-66: the merge loop; merged holds each span with the caller's object it
\* is (0 when it is a new array), heap holds the caller's span objects, and
\* l.62 writes through last
RECURSIVE MergeWrites(_, _, _)
MergeWrites(merged, rest, heap) ==
  IF rest = << >> THEN heap
  ELSE LET r == Head(rest)
           sp == heap[r]
           n == Len(merged)
       IN IF n > 0 /\ Touches(merged[n].span, sp[1])
          THEN LET ext == <<merged[n].span[1], Max(merged[n].span[2], sp[2])>>
               IN MergeWrites([merged EXCEPT ![n].span = ext], Tail(rest),
                              IF merged[n].object = 0 THEN heap
                              ELSE [heap EXCEPT ![merged[n].object] = ext])
          ELSE MergeWrites(Append(merged, [span |-> sp, object |-> PushedObject(r)]),
                           Tail(rest), heap)

\* l.54-68: the caller's spans array after mergeIndices(indices)
indicesAfter(indices) ==
  LET n == Len(indices)
      refs == SortedRefs(indices, n)
      heap == MergeWrites(<< >>, refs, indices)
      order == ReceiverAfterSort([p \in 1..n |-> p], refs)
  IN [p \in 1..n |-> heap[order[p]]]

\* l.26-52: the caller's matches after getHighlightSegments(text, matches, key);
\* find, the length tests and the loops of l.41-50 only read
matchesAfter(text, matches, key) ==
  IF ~matches.defined \/ Len(matches.list) = 0 \/ Len(text) = 0
  THEN matches
  ELSE LET i == FindFieldMatch(matches.list, key)
       IN IF i = 0 \/ Len(matches.list[i].indices) = 0
          THEN matches
          ELSE [matches EXCEPT !.list[i].indices = indicesAfter(@)]

\* the inputs: texts of distinct characters, so that a character that is lost,
\* repeated or moved shows; spans [start, end] with start <= end, also past the
\* end of the text
Letters == <<"a", "b", "c", "d", "e", "f", "g", "h">>
Texts == {SubSeq(Letters, 1, n) : n \in 0..MaxText}
FieldKeys == {"name", "city"}
Spans == {sp \in (0..(MaxText - 1)) \X (0..(MaxText - 1)) : sp[1] <= sp[2]}
\* a matches array of Len(counts) entries: entry i has key ks[i] and the next
\* counts[i] spans of flat
RECURSIVE SumTo(_, _)
SumTo(counts, i) == IF i = 0 THEN 0 ELSE counts[i] + SumTo(counts, i - 1)

MatchesOf(counts, ks, flat) ==
  [defined |-> TRUE,
   list |-> [i \in 1..Len(counts) |->
               [key |-> ks[i],
                indices |-> SubSeq(flat, SumTo(counts, i - 1) + 1, SumTo(counts, i))]]]

UndefinedMatches == [defined |-> FALSE, list |-> << >>]

(* ------------------------------- Init --------------------------------- *)
Instances == {1, 2}

\* the cells of a hook instance that has not rendered yet
FreshHook ==
  [phase |-> "new", query |-> << >>, debouncedQuery |-> << >>,
   isSearching |-> FALSE, timerRef |-> NoTimer, hasCleanup |-> FALSE]

DuoIdle ==
  /\ duoHooks = [i \in Instances |-> FreshHook]
  /\ duoTimers = {}
  /\ duoNext = 1

\* no PrixList page is open
NoRequest == [fn |-> "none", from |-> 0, to |-> 0 - 1]
PgIdle ==
  /\ pgSearchQuery = ""
  /\ pgPages = << >>
  /\ pgInFlight = NoRequest
  /\ pgHasNext = FALSE

HlIdle ==
  /\ hlText = << >>
  /\ hlMatches = UndefinedMatches
  /\ hlKey = "name"
  /\ hlSegments = << >>
  /\ hlDone = FALSE
  /\ hlMatchesAfter = hlMatches

\* the state after the first render and the first effect run, mounted with a
\* two-record list, the pharmacy keys and the default threshold; the other
\* lists, keys and thresholds are reached by the prop-change actions
Init ==
  /\ HlIdle
  /\ DuoIdle
  /\ PgIdle
  /\ mounted = TRUE
  /\ query \in QueryValues
  /\ debounceMs \in DebounceValues
  /\ minChars \in MinCharsValues
  /\ items = <<1, 2>>
  /\ keys = "pharmacySearchKeys"
  /\ threshold = DefaultThreshold
  /\ debouncedQuery = query
  /\ fuse = NewFuse(items, keys, threshold, 1)
  /\ buildCount = 1
  /\ frDeps = FuzzyDeps(fuse, debouncedQuery, items, minChars)
  /\ \E out \in ComputeFuzzy(fuse, debouncedQuery, items, minChars) :
       /\ fuzzyResults = out.res
       /\ searched = out.searched
  /\ sinceEffect = 0
  /\ superseded = FALSE
  /\ burstCommits = 0
  /\ IF SubMin(Trim(query), minChars)
     THEN /\ isSearching = FALSE
          /\ timerRef = NoTimer
          /\ timers = {}
          /\ hasCleanup = FALSE
     ELSE /\ isSearching = FlagOnSchedule(FALSE)
          /\ timerRef = 1
          /\ timers = {[id |-> 1, q |-> Trim(query), due |-> debounceMs]}
          /\ hasCleanup = TRUE

(* ------------------------------ actions ------------------------------- *)
\* the caller passes another raw query
SetQuery(v) ==
  /\ mounted
  /\ v # query
  /\ query' = v
  /\ RunEffect(v, debounceMs, minChars)
  /\ NoteEffectRun(TRUE)
  /\ Render(items, keys, threshold, debouncedQuery, minChars)
  /\ UNCHANGED <<mounted, debounceMs, minChars, keys, threshold,
                 debouncedQuery, hlVars, duoVars, pgVars>>

\* the caller passes another debounceMs
SetDebounceMs(ms) ==
  /\ mounted
  /\ ms # debounceMs
  /\ debounceMs' = ms
  /\ RunEffect(query, ms, minChars)
  /\ NoteEffectRun(FALSE)
  /\ Render(items, keys, threshold, debouncedQuery, minChars)
  /\ UNCHANGED <<mounted, query, minChars, keys, threshold,
                 debouncedQuery, hlVars, duoVars, pgVars>>

\* the caller passes another minChars
SetMinChars(mc) ==
  /\ mounted
  /\ mc # minChars
  /\ minChars' = mc
  /\ RunEffect(query, debounceMs, mc)
  /\ NoteEffectRun(FALSE)
  /\ Render(items, keys, threshold, debouncedQuery, mc)
  /\ UNCHANGED <<mounted, query, debounceMs, keys, threshold,
                 debouncedQuery, hlVars, duoVars, pgVars>>

\* the caller passes another items list
SetItems(its) ==
  /\ mounted
  /\ its # items
  /\ buildCount < MaxBuilds
  /\ Render(its, keys, threshold, debouncedQuery, minChars)
  /\ IF "items" \in EffectDeps
     THEN RunEffect(query, debounceMs, minChars) /\ NoteEffectRun(FALSE)
     ELSE UNCHANGED <<isSearching, timerRef, timers, hasCleanup,
                      sinceEffect, superseded, burstCommits>>
  /\ UNCHANGED <<mounted, query, debounceMs, minChars, keys, threshold,
                 debouncedQuery, hlVars, duoVars, pgVars>>

\* the caller passes another keys array
SetKeys(ks) ==
  /\ mounted
  /\ ks # keys
  /\ buildCount < MaxBuilds
  /\ keys' = ks
  /\ Render(items, ks, threshold, debouncedQuery, minChars)
  /\ UNCHANGED <<mounted, query, debounceMs, minChars, threshold,
                 debouncedQuery, isSearching, timerRef, timers, hasCleanup,
                 sinceEffect, superseded, burstCommits, hlVars, duoVars, pgVars>>

\* the caller passes another threshold
SetThreshold(thr) ==
  /\ mounted
  /\ thr # threshold
  /\ buildCount < MaxBuilds
  /\ threshold' = thr
  /\ Render(items, keys, thr, debouncedQuery, minChars)
  /\ UNCHANGED <<mounted, query, debounceMs, minChars, keys,
                 debouncedQuery, isSearching, timerRef, timers, hasCleanup,
                 sinceEffect, superseded, burstCommits, hlVars, duoVars, pgVars>>

\* l.34-37: a due timer's callback runs
TimerFire(t) ==
  /\ t \in timers
  /\ t.due = 0
  /\ timers' = timers \ {t}
  /\ burstCommits' = Min(burstCommits + 1, 2)
  /\ IF mounted
     THEN /\ debouncedQuery' = t.q
          /\ isSearching' = FALSE
          /\ Render(items, keys, threshold, t.q, minChars)
     ELSE UNCHANGED <<debouncedQuery, isSearching, items, fuse, buildCount,
                      fuzzyResults, frDeps, searched>>
  /\ UNCHANGED <<mounted, query, debounceMs, minChars, keys, threshold,
                 timerRef, hasCleanup, sinceEffect, superseded, hlVars, duoVars, pgVars>>

Expire == \E t \in timers : TimerFire(t)

\* one tick of time passes; no pending timer is due
Tick ==
  /\ \A t \in timers : t.due > 0
  /\ timers' = {[t EXCEPT !.due = t.due - 1] : t \in timers}
  /\ sinceEffect' = Min(sinceEffect + 1, MaxDebounce)
  /\ UNCHANGED <<mounted, query, debounceMs, minChars, items, keys, threshold,
                 debouncedQuery, isSearching, timerRef, hasCleanup,
                 fuse, buildCount, fuzzyResults, frDeps, searched,
                 superseded, burstCommits, hlVars, duoVars, pgVars>>

\* the owning component unmounts: React runs the last effect's cleanup
Unmount ==
  /\ mounted
  /\ mounted' = FALSE
  /\ timers' = RunCleanup(timers, timerRef, hasCleanup)
  /\ hasCleanup' = FALSE
  /\ UNCHANGED <<query, debounceMs, minChars, items, keys, threshold,
                 debouncedQuery, isSearching, timerRef,
                 fuse, buildCount, fuzzyResults, frDeps, searched,
                 sinceEffect, superseded, burstCommits, hlVars, duoVars, pgVars>>

Next ==
  \/ \E v \in QueryValues : SetQuery(v)
  \/ \E ms \in DebounceValues : SetDebounceMs(ms)
  \/ \E mc \in MinCharsValues : SetMinChars(mc)
  \/ \E its \in ItemLists : SetItems(its)
  \/ \E ks \in KeySets : SetKeys(ks)
  \/ \E thr \in Thresholds : SetThreshold(thr)
  \/ Expire
  \/ Tick
  \/ Unmount

Spec == Init /\ [][Next]_vars

(* ------------------------- the hook's claims -------------------------- *)
\* the claims' own reading of the raw query
TrimmedLen(v) == Len(Trim(v))
TooShort(v, mc) == TrimmedLen(v) > 0 /\ TrimmedLen(v) < mc
Committable(v, mc) == TrimmedLen(v) = 0 \/ TrimmedLen(v) >= mc
NoTimerDue == \A t \in timers : t.due > 0
\* debounceMs has elapsed since the last change and the due callback has run
QuietElapsed == sinceEffect >= debounceMs /\ NoTimerDue

\* C1: a burst of raw-query changes, each less than debounceMs after the
\* previous one (a change of debounceMs or minChars restarts the delay the same
\* way and continues the burst), whose last value is empty or at least
\* minChars long after trimming, commits exactly once, and commits the trimmed
\* last value: once the quiet interval has elapsed one expiry has happened in
\* the burst and the committed query is that value; no burst sees two.
C1_Coalescing ==
  /\ burstCommits <= 1
  /\ (mounted /\ Committable(query, minChars) /\ QuietElapsed) =>
       (burstCommits = 1 /\ debouncedQuery = Trim(query))

\* rapid changes, the later cancelling the delay of the earlier, committed once
C1_Witness ==
  /\ mounted
  /\ superseded
  /\ TrimmedLen(query) >= minChars
  /\ QuietElapsed
  /\ burstCommits = 1
  /\ debouncedQuery = Trim(query)

\* C2: a step that leaves items, keys and threshold as they are (a raw-query
\* change, a delay expiry, a change of another option) constructs no Fuse
\* instance: the build count and the instance stay.
C2_RebuildSkip ==
  [][UNCHANGED <<items, keys, threshold>> => UNCHANGED <<buildCount, fuse>>]_vars

\* still the first index after rapid query changes and a commit
C2_Witness ==
  /\ buildCount = 1
  /\ superseded
  /\ burstCommits = 1
  /\ searched

C5_CommitAfterQuiet ==
  (mounted /\ Committable(query, minChars) /\ QuietElapsed) =>
    (debouncedQuery = Trim(query) /\ ~isSearching)

\* a raw query with surrounding blanks was committed trimmed
C5_Witness ==
  /\ mounted
  /\ QuietElapsed
  /\ query # Trim(query)
  /\ TrimmedLen(query) >= minChars
  /\ debouncedQuery = Trim(query)
  /\ ~isSearching

\* C6: the committed query changes only in a delay expiry, and every expiry
\* commits the trimmed value of the current (most recent) raw query; every
\* pending delay carries that value, so a superseded value is never committed.
C6_LastWins ==
  [][LET expired == /\ \E t \in timers : t.due = 0 /\ timers' = timers \ {t}
                    /\ UNCHANGED <<mounted, query, debounceMs, minChars>>
     IN  /\ debouncedQuery' # debouncedQuery => expired
         /\ (expired /\ mounted) => debouncedQuery' = Trim(query)
         /\ \A t \in timers' : t.q = Trim(query')
    ]_vars

\* the second value of a burst was committed over a different first one
C6_Witness ==
  /\ mounted
  /\ superseded
  /\ burstCommits = 1
  /\ debouncedQuery = Trim(query)
  /\ TrimmedLen(query) > 0

\* C7: at most one delay timer is pending.
C7_OnePending == Cardinality(timers) <= 1

\* one timer is pending after an earlier one of the burst was superseded
C7_Witness ==
  /\ Cardinality(timers) = 1
  /\ superseded
  /\ burstCommits = 0

\* C8: isSearching is true while a delay is pending.
C8_SearchingWhilePending == timers # {} => isSearching

\* a delay is pending, part of its interval has passed
C8_Witness ==
  /\ timers # {}
  /\ sinceEffect > 0
  /\ isSearching

\* C9: when the trimmed committed query is empty or shorter than minChars the
\* index is not queried, results is items, and every scored result has score
\* 0, isFuzzy false and no match spans.
C9_Bypass ==
  (TrimmedLen(debouncedQuery) = 0 \/ TrimmedLen(debouncedQuery) < minChars) =>
    /\ ~searched
    /\ Results = items
    /\ \A i \in 1..Len(fuzzyResults) :
         /\ fuzzyResults[i].score = 0
         /\ ~fuzzyResults[i].isFuzzy
         /\ ~fuzzyResults[i].hasMatches

\* a non-empty committed query below minChars, after the list was replaced
C9_Witness ==
  /\ buildCount > 1
  /\ TrimmedLen(debouncedQuery) > 0
  /\ TrimmedLen(debouncedQuery) < minChars
  /\ Len(items) > 1
  /\ Results = items

\* C10: isFuzzyMode holds exactly when the trimmed committed query has at
\* least minChars characters and some scored result has a score above 0.05.
C10_FuzzyMode ==
  IsFuzzyMode <=>
    /\ TrimmedLen(debouncedQuery) >= minChars
    /\ \E i \in 1..Len(fuzzyResults) : fuzzyResults[i].score > NearExactCutoff

\* after a commit, a search whose scores are 0.05 or below is not in fuzzy mode
C10_Witness ==
  /\ searched
  /\ burstCommits = 1
  /\ TrimmedLen(debouncedQuery) >= minChars
  /\ \E i \in 1..Len(fuzzyResults) : fuzzyResults[i].score = NearExactCutoff
  /\ ~IsFuzzyMode

C19_ItemsUntouched ==
  [][(\E its \in ItemLists : SetItems(its)) \/ UNCHANGED items]_vars

\* results were derived from the list itself (items.map) after an expiry, over
\* a rebuilt index, and the list is whole
C19_Witness ==
  /\ mounted
  /\ buildCount > 1
  /\ burstCommits = 1
  /\ ~searched
  /\ keys = "medicamentSearchKeys"
  /\ items = <<1, 2>>
  /\ Results = items

\* C21: results is as long as the scored results and its i-th element is the
\* record of the i-th scored result, in every state.
C21_ResultsFollowRanking ==
  /\ Len(Results) = Len(fuzzyResults)
  /\ \A i \in 1..Len(fuzzyResults) : Results[i] = fuzzyResults[i].item

\* a search ranked the second record, a near-exact match, before the first
C21_Witness ==
  /\ searched
  /\ Len(fuzzyResults) = 2
  /\ fuzzyResults[1].score < fuzzyResults[2].score
  /\ Results = <<2, 1>>

\* C22: with an empty items list, results and the scored results are empty
\* and isFuzzyMode is false, whatever the committed query.
C22_EmptyList ==
  items = << >> =>
    (fuzzyResults = << >> /\ Results = << >> /\ ~IsFuzzyMode)

\* the list was emptied under a committed query that is searched
C22_Witness ==
  /\ mounted
  /\ items = << >>
  /\ fuse.gen > 1
  /\ TrimmedLen(debouncedQuery) >= minChars
  /\ burstCommits = 1
  /\ fuzzyResults = << >>

\* C25: isSearching is false in every state of the mounted hook in which no
\* delay is pending, also after a pending delay was cancelled by a raw-query
\* change that started no new delay.
C25_IdleNotSearching == (mounted /\ timers = {}) => ~isSearching

\* C26: a change of items leaves a pending delay as it is (same expiry time,
\* same query, isSearching and the committed query untouched); an expiry
\* commits the trimmed raw query and the render it causes uses the index
\* built from the current items.
C26_ItemsKeepDelay ==
  [][LET expired == /\ \E t \in timers : t.due = 0 /\ timers' = timers \ {t}
                    /\ UNCHANGED <<mounted, query, debounceMs, minChars>>
     IN /\ items' # items =>
             /\ timers' = timers
             /\ timerRef' = timerRef
             /\ isSearching' = isSearching
             /\ debouncedQuery' = debouncedQuery
        /\ (expired /\ mounted) =>
             /\ debouncedQuery' = Trim(query)
             /\ fuse'.items = items'
             /\ \A i \in 1..Len(fuzzyResults') :
                  \E j \in 1..Len(items') : fuzzyResults'[i].item = items'[j]
    ]_vars

\* the list was emptied while the delay scheduled at mount is pending: no
\* commit has happened yet (the committed query is still the untrimmed
\* initial one), time has passed and the delay is still counting down
C26_Witness ==
  /\ mounted
  /\ items = << >>
  /\ debouncedQuery # Trim(debouncedQuery)
  /\ query = debouncedQuery
  /\ burstCommits = 0
  /\ ~superseded
  /\ sinceEffect > 0
  /\ \E t \in timers : t.id = timerRef /\ t.due = debounceMs - sinceEffect

\* C27: unmounting cancels the pending delay, and after the unmount no commit
\* happens: the committed query and isSearching are never updated again.
C27_UnmountCancels ==
  /\ [](~mounted => timers = {})
  /\ [][~mounted =>
          UNCHANGED <<mounted, debouncedQuery, isSearching, burstCommits>>]_vars

\* unmounted with a committable raw query that was never committed, although
\* more than the delay has passed since it was typed
C27_Witness ==
  /\ ~mounted
  /\ isSearching
  /\ timers = {}
  /\ Committable(query, minChars)
  /\ debouncedQuery # Trim(query)
  /\ sinceEffect >= debounceMs

\* C28: the committed query has no leading or trailing whitespace in any
\* state, the initial one included.
C28_CommittedTrimmed == mounted => debouncedQuery = Trim(debouncedQuery)

(* ------------------------- clearing the query ------------------------- *)
\* the hook of one call site, whose field weights, threshold and debounce
\* interval are fixed (static configuration); the event loop runs a due
\* callback, and time passes
NextLive ==
  \/ \E v \in QueryValues : SetQuery(v)
  \/ \E mc \in MinCharsValues : SetMinChars(mc)
  \/ \E its \in ItemLists : SetItems(its)
  \/ Expire
  \/ Tick
  \/ Unmount

InitLive == Init /\ debounceMs = MaxDebounce

SpecLive == InitLive /\ [][NextLive]_vars /\ WF_vars(Tick) /\ WF_vars(Expire)

Blank(v) == TrimmedLen(v) = 0

Cleared ==
  /\ debouncedQuery = << >>
  /\ Results = items
  /\ ~IsFuzzyMode
  /\ ~isSearching

\* C11: from any reachable state, once the raw query has been set to the empty
\* string or to whitespace only and stays so (the hook stays mounted and the
\* effect is not run again: sinceEffect = 0 is the state right after a run of
\* the effect, that is after a change of the raw query, debounceMs or
\* minChars), the hook eventually has an empty committed query, results equal
\* to items, isFuzzyMode false and isSearching false.
C11_ClearEventually ==
  []<>(Cleared \/ ~mounted \/ ~Blank(query) \/ sinceEffect = 0)

\* a whitespace-only raw query was committed as the empty query over a
\* rebuilt index
C11_Witness ==
  /\ mounted
  /\ query # << >>
  /\ Blank(query)
  /\ burstCommits = 1
  /\ buildCount > 1
  /\ Cleared

(* ------------------- the first render, any configuration -------------- *)
\* the number of fields of a keys array; "emptyKeys" is the array []
KeysLength(ks) ==
  CASE ks = "pharmacySearchKeys" -> 5
    [] ks = "medicamentSearchKeys" -> 3
    [] OTHER -> 0

MountKeySets == KeySets \cup {"emptyKeys"}

\* options.threshold: absent, or any number
AbsentOption == [defined |-> FALSE, value |-> 0]
ThresholdOptions ==
  {AbsentOption} \cup
  {[defined |-> TRUE, value |-> t] : t \in Thresholds \cup {0, 0 - StrictThreshold}}

\* l.18-22: a destructuring default applies to an absent option only
OptionOr(opt, default) == IF opt.defined THEN opt.value ELSE default

\* no Fuse instance yet
NoFuse == [items |-> << >>, keys |-> "none", threshold |-> 0, gen |-> 0]

\* before the first render: the caller's arguments, the threshold as the hook
\* reads it from the options
InitMount ==
  /\ HlIdle
  /\ DuoIdle
  /\ PgIdle
  /\ mounted = FALSE
  /\ query \in QueryValues
  /\ debounceMs \in DebounceValues
  /\ minChars \in MinCharsValues
  /\ items \in ItemLists
  /\ keys \in MountKeySets
  /\ \E opt \in ThresholdOptions : threshold = OptionOr(opt, DefaultThreshold)
  /\ debouncedQuery = << >>
  /\ isSearching = FALSE
  /\ timerRef = NoTimer
  /\ timers = {}
  /\ hasCleanup = FALSE
  /\ fuse = NoFuse
  /\ buildCount = 0
  /\ fuzzyResults = << >>
  /\ frDeps = FuzzyDeps(NoFuse, << >>, << >>, 0)
  /\ searched = FALSE
  /\ sinceEffect = 0
  /\ superseded = FALSE
  /\ burstCommits = 0

\* l.24-66: the first render (useState(query), the two memos) and the first
\* run of the effect; keys and threshold reach new Fuse as they were passed
Mount ==
  /\ ~mounted
  /\ buildCount = 0
  /\ mounted' = TRUE
  /\ debouncedQuery' = query
  /\ RunEffect(query, debounceMs, minChars)
  /\ Render(items, keys, threshold, query, minChars)
  /\ UNCHANGED <<query, debounceMs, minChars, keys, threshold,
                 sinceEffect, superseded, burstCommits, hlVars, duoVars, pgVars>>

NextMount == Mount

SpecMount == InitMount /\ [][NextMount]_vars

InvalidConfig(ks, thr) == KeysLength(ks) = 0 \/ thr <= 0

\* C12: with an empty keys array or a non-positive threshold the construction
\* fails: no Fuse instance is built (and no default replaces the value).
C12_ConfigFatal ==
  InvalidConfig(keys, threshold) =>
    (buildCount = 0 /\ fuse = NoFuse /\ ~mounted)

(* --------------------- the highlight resolver alone ------------------- *)
\* the hook at rest, and one call of getHighlightSegments on drawn inputs
InitHighlight ==
  /\ hlText \in Texts
  /\ \/ hlMatches = UndefinedMatches
     \/ \E k \in 0..MaxEntries : \E counts \in [1..k -> 0..MaxSpans] :
          /\ SumTo(counts, k) <= MaxSpans
          /\ \E ks \in [1..k -> FieldKeys] :
               \E flat \in [1..SumTo(counts, k) -> Spans] :
                 hlMatches = MatchesOf(counts, ks, flat)
  /\ hlKey = "name"
  /\ hlSegments = << >>
  /\ hlDone = FALSE
  /\ hlMatchesAfter = hlMatches
  /\ DuoIdle
  /\ PgIdle
  /\ mounted = FALSE
  /\ query = << >>
  /\ debounceMs = 1
  /\ minChars = 1
  /\ items = << >>
  /\ keys = "pharmacySearchKeys"
  /\ threshold = DefaultThreshold
  /\ debouncedQuery = << >>
  /\ isSearching = FALSE
  /\ timerRef = NoTimer
  /\ timers = {}
  /\ hasCleanup = FALSE
  /\ fuse = NewFuse(items, keys, threshold, 1)
  /\ buildCount = 1
  /\ fuzzyResults = << >>
  /\ frDeps = FuzzyDeps(fuse, debouncedQuery, items, minChars)
  /\ searched = FALSE
  /\ sinceEffect = 0
  /\ superseded = FALSE
  /\ burstCommits = 0

Resolve ==
  /\ ~hlDone
  /\ hlSegments' = getHighlightSegments(hlText, hlMatches, hlKey)
  /\ hlMatchesAfter' = matchesAfter(hlText, hlMatches, hlKey)
  /\ hlDone' = TRUE
  /\ UNCHANGED <<hlText, hlMatches, hlKey, hookVars, duoVars, pgVars>>

NextHighlight == Resolve

SpecHighlight == InitHighlight /\ [][NextHighlight]_vars

(* ------------------- C3: highlight round trip ------------------------- *)
ValidSpan(sp, text) == 0 <= sp[1] /\ sp[1] <= sp[2] /\ sp[2] < Len(text)

\* every span of every entry carrying the requested key is valid for the text
ValidSpanSet(text, matches, key) ==
  \A i \in 1..Len(matches.list) :
    matches.list[i].key = key =>
      \A j \in 1..Len(matches.list[i].indices) :
        ValidSpan(matches.list[i].indices[j], text)

RECURSIVE ConcatText(_)
ConcatText(segments) ==
  IF segments = << >> THEN << >>
  ELSE Head(segments).text \o ConcatText(Tail(segments))

\* C3: for every text and every valid span set of the requested field, the
\* texts of the returned segments, concatenated in order, are the input text.
C3_RoundTrip ==
  (hlDone /\ ValidSpanSet(hlText, hlMatches, hlKey)) => ConcatText(hlSegments) = hlText

\* a call that returned a highlighted segment between two plain ones
C3_Witness ==
  /\ hlDone
  /\ ValidSpanSet(hlText, hlMatches, hlKey)
  /\ Len(hlSegments) = 3
  /\ hlSegments[2].highlighted
  /\ ConcatText(hlSegments) = hlText

(* ------------------------ C13: span merging --------------------------- *)
\* the spans of the match entry getHighlightSegments reads for the key
EntrySpans(matches, key) ==
  IF ~matches.defined \/ FindFieldMatch(matches.list, key) = 0 THEN << >>
  ELSE matches.list[FindFieldMatch(matches.list, key)].indices

\* the offset in the text of the first character of segment k
SegOffset(segments, k) == Len(ConcatText(SubSeq(segments, 1, k - 1)))

\* segment k is highlighted and holds the characters from..to of the text
HighlightsRange(segments, k, from, to) ==
  /\ segments[k].highlighted
  /\ SegOffset(segments, k) <= from
  /\ to < SegOffset(segments, k) + Len(segments[k].text)

\* two spans overlap or are adjacent: the later one starts at most one
\* position after the end of the earlier one, so no character lies between
Adjoining(a, b) == a[1] <= b[1] /\ b[1] <= a[2] + 1

NoSpansFor(matches, key) ==
  \A i \in 1..Len(matches.list) :
    matches.list[i].key = key => Len(matches.list[i].indices) = 0

\* C14: when there are no spans for the requested field (matches undefined or
\* empty, no entry with the key, or an empty span list for the key), the
\* result is exactly one segment, not highlighted, whose text is the whole
\* input text.
C14_NoSpansWhole ==
  (hlDone /\ NoSpansFor(hlMatches, hlKey)) =>
    hlSegments = <<[text |-> hlText, highlighted |-> FALSE]>>

\* a non-empty text with spans for another field only
C14_Witness ==
  /\ hlDone
  /\ NoSpansFor(hlMatches, hlKey)
  /\ Len(hlText) > 1
  /\ \E i \in 1..Len(hlMatches.list) :
       hlMatches.list[i].key # hlKey /\ Len(hlMatches.list[i].indices) > 0
  /\ hlSegments = <<[text |-> hlText, highlighted |-> FALSE]>>

(* ---------------------- C15: exact highlighting ----------------------- *)
\* position p of the text lies in a highlighted segment
InHighlighted(segments, p) ==
  \E k \in 1..Len(segments) : HighlightsRange(segments, k, p, p)

\* position p is covered by a valid span of an entry carrying the key
CoveredBySpan(text, matches, key, p) ==
  \E i \in 1..Len(matches.list) :
    /\ matches.list[i].key = key
    /\ \E j \in 1..Len(matches.list[i].indices) :
         LET sp == matches.list[i].indices[j]
         IN ValidSpan(sp, text) /\ sp[1] <= p /\ p <= sp[2]

\* C15: for every list of match entries whose spans for the requested field
\* are valid (lists with several entries for that field included), a position
\* of the text lies in a highlighted segment exactly when a span tagged with
\* the field covers it.
C15_ExactHighlight ==
  (hlDone /\ ValidSpanSet(hlText, hlMatches, hlKey)) =>
    \A p \in 0..(Len(hlText) - 1) :
      InHighlighted(hlSegments, p) <=> CoveredBySpan(hlText, hlMatches, hlKey, p)

(* ----------------------- C16: segment ordering ------------------------ *)
\* segment k is the part of the text that starts at its offset
InPlace(text, segments, k) ==
  segments[k].text =
    SubSeq(text, SegOffset(segments, k) + 1,
           SegOffset(segments, k) + Len(segments[k].text))

\* C16: for a non-empty text and valid spans the segments are in left-to-right
\* text order (each is the part of the text that follows the segments before
\* it), none is empty, and consecutive segments differ in the highlighted
\* flag.
C16_OrderedAlternating ==
  (hlDone /\ Len(hlText) > 0 /\ ValidSpanSet(hlText, hlMatches, hlKey)) =>
    /\ \A k \in 1..Len(hlSegments) :
         Len(hlSegments[k].text) > 0 /\ InPlace(hlText, hlSegments, k)
    /\ \A k \in 1..(Len(hlSegments) - 1) :
         hlSegments[k].highlighted # hlSegments[k + 1].highlighted

\* spans given in descending order came out as highlighted, plain, highlighted
C16_Witness ==
  /\ hlDone
  /\ Len(hlText) = 3
  /\ EntrySpans(hlMatches, hlKey) = <<<<2, 2>>, <<0, 0>>>>
  /\ Len(hlSegments) = 3
  /\ hlSegments[1].highlighted
  /\ ~hlSegments[2].highlighted
  /\ hlSegments[3].highlighted

\* C29: a call of getHighlightSegments leaves its inputs as they were: the
\* matches array, its entries and their spans have the same content and the
\* same order after the call, also when spans were sorted and merged.
C29_InputsUntouched == hlDone => hlMatchesAfter = hlMatches

\* two spans given in descending order were sorted and merged into one span
\* longer than either
C29_Witness ==
  /\ hlDone
  /\ Len(hlText) = 3
  /\ EntrySpans(hlMatches, hlKey) = <<<<1, 2>>, <<0, 0>>>>
  /\ Len(hlSegments) = 1
  /\ hlSegments[1].highlighted
  /\ hlMatchesAfter = hlMatches

(* ------------------- two hook instances on one page ------------------- *)
\* The debounce part of two instances, each with the default minChars.  Every
\* instance has its own useState and useRef cells; the timers of both live in
\* the page's one timer table, under handles that count up and are not
\* reused.  The callback of a timer is a closure over the setters of the
\* instance that scheduled it (owner).  A pending timer may expire at any
\* time.
HookIdle ==
  /\ mounted = FALSE
  /\ query = << >>
  /\ debounceMs = 1
  /\ minChars = 1
  /\ items = << >>
  /\ keys = "pharmacySearchKeys"
  /\ threshold = DefaultThreshold
  /\ debouncedQuery = << >>
  /\ isSearching = FALSE
  /\ timerRef = NoTimer
  /\ timers = {}
  /\ hasCleanup = FALSE
  /\ fuse = NewFuse(items, keys, threshold, 1)
  /\ buildCount = 1
  /\ fuzzyResults = << >>
  /\ frDeps = FuzzyDeps(fuse, debouncedQuery, items, minChars)
  /\ searched = FALSE
  /\ sinceEffect = 0
  /\ superseded = FALSE
  /\ burstCommits = 0

InitDuo == HlIdle /\ HookIdle /\ DuoIdle /\ PgIdle

\* raw queries of the three kinds: empty, shorter than minChars, long enough
DuoQueries == {<< >>, <<"a">>, <<"a", "a">>}

\* l.26: the ref cell instance i reads and writes, its own
RefCellShared(i) == 1
RefCell(i) == i

\* l.28-41: the effect of instance i runs for raw query v, after the cleanup
\* of its previous run; hooks holds the cells as the render left them
DuoEffect(i, v, hooks) ==
  LET cell == RefCell(i)
      cleaned == RunCleanup(duoTimers, hooks[cell].timerRef, hooks[i].hasCleanup)
      q == Trim(v)
  IN IF SubMin(q, DefaultMinChars)
     THEN /\ duoTimers' = cleaned
          /\ duoHooks' = [hooks EXCEPT ![i].query = v, ![i].hasCleanup = FALSE]
          /\ UNCHANGED duoNext
     ELSE /\ duoNext <= MaxHandles
          /\ duoTimers' = cleaned \cup {[id |-> duoNext, owner |-> i, q |-> q]}
          /\ duoNext' = duoNext + 1
          /\ duoHooks' = [hooks EXCEPT ![i].query = v,
                                       ![i].isSearching = FlagOnSchedule(@),
                                       ![i].hasCleanup = TRUE,
                                       ![cell].timerRef = duoNext]

\* l.24-41: the first render of instance i, useState(query), and its effect
DuoMount(i, v) ==
  /\ duoHooks[i].phase = "new"
  /\ DuoEffect(i, v, [duoHooks EXCEPT ![i].phase = "mounted",
                                      ![i].debouncedQuery = v])

\* the caller of instance i passes another raw query
DuoSetQuery(i, v) ==
  /\ duoHooks[i].phase = "mounted"
  /\ v # duoHooks[i].query
  /\ DuoEffect(i, v, duoHooks)

\* l.34-37: the callback of a pending timer runs
DuoExpire(t) ==
  /\ t \in duoTimers
  /\ duoTimers' = duoTimers \ {t}
  /\ duoHooks' = IF duoHooks[t.owner].phase = "mounted"
                 THEN [duoHooks EXCEPT ![t.owner].debouncedQuery = t.q,
                                       ![t.owner].isSearching = FALSE]
                 ELSE duoHooks
  /\ UNCHANGED duoNext

\* the component owning instance i unmounts: its last cleanup runs
DuoUnmount(i) ==
  /\ duoHooks[i].phase = "mounted"
  /\ duoTimers' = RunCleanup(duoTimers, duoHooks[RefCell(i)].timerRef,
                             duoHooks[i].hasCleanup)
  /\ duoHooks' = [duoHooks EXCEPT ![i].phase = "gone", ![i].hasCleanup = FALSE]
  /\ UNCHANGED duoNext

\* the events of instance i
DuoEvent(i) ==
  /\ \/ \E v \in DuoQueries : DuoMount(i, v)
     \/ \E v \in DuoQueries : DuoSetQuery(i, v)
     \/ \E t \in duoTimers : t.owner = i /\ DuoExpire(t)
     \/ DuoUnmount(i)
  /\ UNCHANGED <<hookVars, hlVars, pgVars>>

NextDuo == \E i \in Instances : DuoEvent(i)

SpecDuo == InitDuo /\ [][NextDuo]_vars

PendingOf(tm, j) == {t \in tm : t.owner = j}

\* C20: an event of one instance (first render, raw-query change, delay
\* expiry, unmount) leaves the cells of the other instance, among them its
\* committed query and its isSearching flag, and its pending delay as they
\* were.
C20_Independence ==
  [][\A i \in Instances :
       DuoEvent(i) =>
         \A j \in Instances \ {i} :
           /\ duoHooks'[j] = duoHooks[j]
           /\ PendingOf(duoTimers', j) = PendingOf(duoTimers, j)
    ]_vars

\* one instance has committed a second raw query and unmounted while the
\* delay of the other is still pending
C20_Witness ==
  /\ duoHooks[1].phase = "gone"
  /\ duoHooks[1].debouncedQuery = Trim(duoHooks[1].query)
  /\ duoHooks[1].timerRef > 1
  /\ duoHooks[2].phase = "mounted"
  /\ duoHooks[2].isSearching
  /\ PendingOf(duoTimers, 2) # {}

(* --------------------- PrixList pagination (PrixList.tsx) -------------- *)
\* The infinite query of the price list: one queryFn call at a time, started
\* by the library for the first page and by "Charger plus" for the next ones.
\* The data store is outside the repository: a request for a range of rows is
\* answered with any number of rows the range can hold, or fails.
MaxPages == 3

\* PrixList.tsx l.22, l.72; medicaments.ts l.41
PAGE_SIZE == 30
initialPageParam == 0
MAX_LIMIT == 200

\* l.73-74: undefined, no next page
NoPageParam == 0 - 1

SearchTexts == {"", "para"}

\* medicaments.ts l.95 (and l.160 in searchMedicaments)
safeLimit(limit) == Min(Max(1, limit), MAX_LIMIT)

\* PrixList.tsx l.65-71 with medicaments.ts l.98: the function called and the
\* rows asked for, limit being PAGE_SIZE (l.50)
queryFn(searchQuery, pageParam) ==
  [fn |-> IF searchQuery # "" THEN "searchMedicaments" ELSE "getMedicaments",
   from |-> pageParam,
   to |-> pageParam + safeLimit(PAGE_SIZE) - 1]

\* l.73-74
getNextPageParamNonEmpty(lastPage, allPages) ==
  IF lastPage.rows > 0 THEN Len(allPages) * PAGE_SIZE ELSE NoPageParam
getNextPageParam(lastPage, allPages) ==
  IF lastPage.rows = PAGE_SIZE THEN Len(allPages) * PAGE_SIZE ELSE NoPageParam

\* the page opens: the library calls queryFn with initialPageParam
InitPages ==
  /\ HlIdle
  /\ HookIdle
  /\ DuoIdle
  /\ pgSearchQuery = ""
  /\ pgPages = << >>
  /\ pgInFlight = queryFn(pgSearchQuery, initialPageParam)
  /\ pgHasNext = FALSE

\* the store answers with n rows: the page is appended and hasNextPage is
\* computed from getNextPageParam
PageLoaded(n) ==
  /\ pgInFlight # NoRequest
  /\ LET page == [from |-> pgInFlight.from, to |-> pgInFlight.to, rows |-> n]
         allPages == Append(pgPages, page)
     IN /\ pgPages' = allPages
        /\ pgHasNext' = (getNextPageParam(page, allPages) # NoPageParam)
  /\ pgInFlight' = NoRequest
  /\ UNCHANGED <<pgSearchQuery, hookVars, hlVars, duoVars>>

\* medicaments.ts l.100: the store reports an error and the call throws
PageFailed ==
  /\ pgInFlight # NoRequest
  /\ pgInFlight' = NoRequest
  /\ UNCHANGED <<pgSearchQuery, pgPages, pgHasNext, hookVars, hlVars, duoVars>>

\* l.188-196: "Charger plus" is shown when hasNextPage and disabled while a
\* next page is being fetched
fetchNextPage ==
  /\ pgHasNext
  /\ pgInFlight = NoRequest
  /\ Len(pgPages) < MaxPages
  /\ pgInFlight' = queryFn(pgSearchQuery,
                           getNextPageParam(pgPages[Len(pgPages)], pgPages))
  /\ UNCHANGED <<pgSearchQuery, pgPages, pgHasNext, hookVars, hlVars, duoVars>>

\* the library fetches the first page again after it failed
RefetchFirstPage ==
  /\ pgPages = << >>
  /\ pgInFlight = NoRequest
  /\ pgInFlight' = queryFn(pgSearchQuery, initialPageParam)
  /\ UNCHANGED <<pgSearchQuery, pgPages, pgHasNext, hookVars, hlVars, duoVars>>

\* l.43, l.64: the debounced search text changes, which is another query key:
\* its pages start again from initialPageParam
SetSearchQuery(q) ==
  /\ q # pgSearchQuery
  /\ pgSearchQuery' = q
  /\ pgPages' = << >>
  /\ pgHasNext' = FALSE
  /\ pgInFlight' = queryFn(q, initialPageParam)
  /\ UNCHANGED <<hookVars, hlVars, duoVars>>

NextPages ==
  \/ \E n \in 0..safeLimit(PAGE_SIZE) : PageLoaded(n)
  \/ PageFailed
  \/ fetchNextPage
  \/ RefetchFirstPage
  \/ \E q \in SearchTexts : SetSearchQuery(q)

SpecPages == InitPages /\ [][NextPages]_vars

====
